---- MODULE Spec2Model ----
(***************************************************************************)
(* doglessdata: DataDogMetrics, a client that formats metrics and service  *)
(* checks as MONITORING|... lines and prints them to standard output.      *)
(*                                                                         *)
(* Python strings are modelled as sequences of one-character strings, so   *)
(* that split, join, replace, "%s" formatting and the regular expression   *)
(* are computed character by character.  Python lists are objects on a     *)
(* heap, so that "tags += ..." changes the list its caller also holds.     *)
(***************************************************************************)
EXTENDS Integers, Sequences, FiniteSets, TLC

VARIABLES
    lambda_name,   \* os.environ AWS_LAMBDA_FUNCTION_NAME ("" when absent)
    aws_region,    \* os.environ AWS_REGION ("" when absent)
    hashseed,      \* the process's string hash seed: fixes the order of list(set(..))
    heap,          \* the list objects: the caller's global_tags and tags, self._default_tags
    pc,            \* "new" before construction; then where the caller is
    frame,         \* locals of the running timing_context / decorated call
    now,           \* time.time(), in half milliseconds
    stdout,        \* the lines printed so far
    call           \* the latest call the caller made: its arguments and outcome

vars == <<lambda_name, aws_region, hashseed, heap, pc, frame, now, stdout, call>>

\* Bounds of the model.
MaxLines == 1
MaxSeq == 2
MaxParts == 5
MaxClock == 2002

None == "None"

(***************************************************************************)
(* Characters and string helpers                                           *)
(***************************************************************************)
Lower == {"a","b","c","d","e","f","g","h","i","j","k","l","m",
          "n","o","p","q","r","s","t","u","v","w","x","y","z"}
Upper == {"A","B","C","D","E","F","G","H","I","J","K","L","M",
          "N","O","P","Q","R","S","T","U","V","W","X","Y","Z"}
Digit == {"0","1","2","3","4","5","6","7","8","9"}

Range(s) == {s[i] : i \in 1..Len(s)}

\* sep.join(list)
RECURSIVE Join(_, _)
Join(list, sep) ==
    IF list = <<>> THEN <<>>
    ELSE IF Len(list) = 1 THEN list[1]
    ELSE list[1] \o sep \o Join(Tail(list), sep)

\* s.split(c) for a one-character separator c: always at least one segment
RECURSIVE Split(_, _)
Split(s, c) ==
    IF \A i \in 1..Len(s) : s[i] # c THEN << s >>
    ELSE LET i == CHOOSE i \in 1..Len(s) : s[i] = c /\ \A j \in 1..(i - 1) : s[j] # c
         IN  << SubSeq(s, 1, i - 1) >> \o Split(SubSeq(s, i + 1, Len(s)), c)

\* s.replace("..", "."): one pass, left to right, over non-overlapping matches
RECURSIVE ReplaceDotDot(_)
ReplaceDotDot(s) ==
    IF Len(s) < 2 THEN s
    ELSE IF s[1] = "." /\ s[2] = "."
         THEN <<".">> \o ReplaceDotDot(SubSeq(s, 3, Len(s)))
         ELSE <<s[1]>> \o ReplaceDotDot(Tail(s))

\* list(set(tags)): every element once, in an order fixed by the hash seed
RECURSIVE SetOrder(_)
SetOrder(S) ==
    IF S = {} THEN <<>>
    ELSE LET x == CHOOSE y \in S : TRUE IN <<x>> \o SetOrder(S \ {x})

Reverse(s) == [i \in 1..Len(s) |-> s[Len(s) + 1 - i]]

ListOfSet(S) == IF hashseed = 0 THEN SetOrder(S) ELSE Reverse(SetOrder(S))

\* int(round(x)) for x = halves / 2 >= 0, Python 3: a tie goes to the even integer
RoundHalves(halves) ==
    LET q == halves \div 2
    IN  IF halves % 2 = 0 THEN q
        ELSE IF q % 2 = 0 THEN q ELSE q + 1

(***************************************************************************)
(* String literals of the source                                           *)
(***************************************************************************)
STR_lambda     == <<"l","a","m","b","d","a">>
STR_lambda_dot == <<"l","a","m","b","d","a",".">>
STR_h          == <<"h",":">>
STR_host       == <<"h","o","s","t",":">>
STR_stack      == <<"s","t","a","c","k",":">>
STR_no_stack   == <<"n","o","_","s","t","a","c","k">>
STR_aws_region == <<"a","w","s","_","r","e","g","i","o","n",":">>
STR_staging    == <<"s","t","a","g","i","n","g">>

(***************************************************************************)
(* REGEX_NAME.match                                                        *)
(***************************************************************************)
IsSep(c) == c \in {"_", "-"}
IsRegionChar(c) == c \in Lower \cup Upper \cup Digit \cup {"_", "-"}

\* where (?P<region>[\w-]+\d+) can end: a prefix of [\w-] characters, at
\* least one of them before the closing digit
RegionEnds(s) ==
    {e \in 2..Len(s) : s[e] \in Digit /\ \A i \in 1..e : IsRegionChar(s[i])}

\* the last index of the longest run of [a-z] that starts at p (p - 1: no run)
RECURSIVE LowerRunEnd(_, _)
LowerRunEnd(s, p) ==
    IF p <= Len(s) /\ s[p] \in Lower THEN LowerRunEnd(s, p + 1) ELSE p - 1

SepAt(s, i) == i <= Len(s) /\ IsSep(s[i])

\* A pattern whose stack may also be a single segment, [a-z]+(?:[_-][a-z]+)?
MatchAfterOneSegment(s, e) ==
    LET a == LowerRunEnd(s, e + 2)
        b == LowerRunEnd(s, a + 2)
        one == SepAt(s, e + 1) /\ a >= e + 2 /\ SepAt(s, a + 1) /\ Len(s) >= a + 2
        two == one /\ b >= a + 2 /\ SepAt(s, b + 1) /\ Len(s) >= b + 2
    IN  IF two
        THEN [matched |-> TRUE, stack |-> SubSeq(s, e + 2, b),
              name |-> SubSeq(s, b + 2, Len(s))]
        ELSE IF one
        THEN [matched |-> TRUE, stack |-> SubSeq(s, e + 2, a),
              name |-> SubSeq(s, a + 2, Len(s))]
        ELSE [matched |-> FALSE, stack |-> <<>>, name |-> <<>>]

\* The rest of the pattern after a region ending at e:
\*   [_-](?P<stack>[a-z]+[_-][a-z]+(?:[_-]staging)?)[_-](?P<name>.+)
\* Each [a-z]+ is followed by [_-], so it can only take its whole run; the
\* optional group is greedy: taken first, dropped on backtracking.
MatchAfter(s, e) ==
    LET a == LowerRunEnd(s, e + 2)
        b == LowerRunEnd(s, a + 2)
        segments == SepAt(s, e + 1) /\ a >= e + 2 /\ SepAt(s, a + 1) /\ b >= a + 2
        staging  == /\ segments
                    /\ SepAt(s, b + 1)
                    /\ Len(s) >= b + 8
                    /\ SubSeq(s, b + 2, b + 8) = STR_staging
                    /\ SepAt(s, b + 9)
                    /\ Len(s) >= b + 10
        plain    == segments /\ SepAt(s, b + 1) /\ Len(s) >= b + 2
    IN  IF staging
        THEN [matched |-> TRUE, stack |-> SubSeq(s, e + 2, b + 8),
              name |-> SubSeq(s, b + 10, Len(s))]
        ELSE IF plain
        THEN [matched |-> TRUE, stack |-> SubSeq(s, e + 2, b),
              name |-> SubSeq(s, b + 2, Len(s))]
        ELSE [matched |-> FALSE, stack |-> <<>>, name |-> <<>>]

\* REGEX_NAME.match(s): the region is greedy, so the longest region for which
\* the rest of the pattern matches is the one found
REGEX_NAME_match(s) ==
    LET ends == {e \in RegionEnds(s) : MatchAfter(s, e).matched}
    IN  IF ends = {} THEN [matched |-> FALSE, stack |-> <<>>, name |-> <<>>]
        ELSE MatchAfter(s, CHOOSE e \in ends : \A f \in ends : f <= e)

(***************************************************************************)
(* DataDogMetrics.__init__                                                 *)
(***************************************************************************)
\* lambda_name and stack as lines 39-50 leave them
init_names(name_env) ==
    LET match == REGEX_NAME_match(name_env)
    IN  IF name_env # <<>>
        THEN IF match.matched
             THEN [lambda_name |-> match.name, stack |-> match.stack]
             ELSE [lambda_name |-> name_env, stack |-> STR_no_stack]
        ELSE [lambda_name |-> name_env, stack |-> STR_no_stack]

\* the list lines 52-60 build from the list global_tags refers to
init_default_tags(global_tags, name_env, region_env) ==
    LET n == init_names(name_env)
    IN  global_tags
        \o << STR_h \o n.lambda_name,
              STR_host \o n.lambda_name,
              STR_stack \o n.stack,
              STR_lambda >>
        \o (IF region_env # <<>> THEN << STR_aws_region \o region_env >> ELSE <<>>)

\* __init__: the heap once self._default_tags is set; "[] + global_tags" is a
\* new list, the caller's list is only read
__init__(h, name_env, region_env) ==
    [h EXCEPT !["_default_tags"] =
        init_default_tags(h["global_tags"], name_env, region_env)]

(***************************************************************************)
(* _get_tags                                                               *)
(***************************************************************************)
\* "tags or self._default_tags": the default list itself instead of a new one
tags_or_default(h, tags) ==
    IF tags = None \/ h[tags] = <<>> THEN "_default_tags" ELSE tags

\* "tags or []": the list the local name tags is bound to afterwards; "fresh"
\* is a newly made empty list, which None and an empty list both give
tags_or_empty(h, tags) ==
    IF tags = None \/ h[tags] = <<>> THEN "fresh" ELSE tags

\* every prefix but the last: range(len(..) - 1)
name_tags_short(metric_name) ==
    LET parts == Split(metric_name, ".")
    IN  [i \in 1..(Len(parts) - 1) |-> Join(SubSeq(parts, 1, i), <<".">>)]

\* [".".join(metric_name.split(".")[:i+1]) for i in range(len(metric_name.split(".")))]
name_tags(metric_name) ==
    LET parts == Split(metric_name, ".")
    IN  [i \in 1..Len(parts) |-> Join(SubSeq(parts, 1, i), <<".">>)]

\* _get_tags: the heap after the two "+=" on the list tags is bound to, and
\* the list returned
_get_tags(h, tags, metric_name) ==
    LET t  == tags_or_empty(h, tags)
        h1 == [h EXCEPT ![t] = @ \o h["_default_tags"]]
        h2 == IF metric_name # <<>>
              THEN [h1 EXCEPT ![t] = @ \o name_tags(metric_name)]
              ELSE h1
    IN  [heap |-> [h2 EXCEPT !["fresh"] = <<>>],
         ret  |-> ListOfSet(Range(h2[t]))]

(***************************************************************************)
(* Formatting and the emitting methods                                     *)
(***************************************************************************)
\* int(time.time()) at clock t (half milliseconds)
Timestamp(t) == t \div 2000

\* "lambda." + name, then .replace("..", ".")
full_name(name) == ReplaceDotDot(STR_lambda_dot \o name)

\* The line _print_metric prints: the template's literal pieces and the
\* values substituted between them, in the template's order
_print_metric(t, metric_type, metric_name, value, tags_list) ==
    << "MONITORING", "|", Timestamp(t), "|", value, "|", metric_type,
       "|", full_name(metric_name), "|#", Join(tags_list, <<",">>) >>

increment(h, t, metric_name, count, tags) ==
    LET r == _get_tags(h, tags, metric_name)
    IN  [heap |-> r.heap,
         out  |-> << _print_metric(t, "count", metric_name, count, r.ret) >>]

gauge(h, t, metric_name, value, tags) ==
    LET r == _get_tags(h, tags, metric_name)
    IN  [heap |-> r.heap,
         out  |-> << _print_metric(t, "gauge", metric_name, value, r.ret) >>]

histogram(h, t, metric_name, value, tags) ==
    LET r == _get_tags(h, tags, metric_name)
    IN  [heap |-> r.heap,
         out  |-> << _print_metric(t, "histogram", metric_name, value, r.ret) >>]

\* timing handing its delta to gauge
timing_as_gauge(h, t, metric_name, delta, tags) ==
    gauge(h, t, metric_name, delta, tags_or_empty(h, tags))

\* timing: "tags = tags or []", then histogram with that list
timing(h, t, metric_name, delta, tags) ==
    histogram(h, t, metric_name, delta, tags_or_empty(h, tags))

\* isinstance(status, int)
IsInt(status) == status.type = "int"

\* the suffix without its test
message_suffix_always(message) == << "|m:", message >>

\* the message suffix: "if message:"
message_suffix(message) == IF message # <<>> THEN << "|m:", message >> ELSE <<>>

\* service_check past its assert: tags from the raw service_name
service_check(h, t, service_name, status, message, tags) ==
    LET r == _get_tags(h, tags, service_name)
    IN  [heap |-> r.heap,
         out  |-> << << "MONITORING", "|", Timestamp(t), "|", status.val, "|", "check",
                        "|", full_name(service_name), "|#", Join(r.ret, <<",">>) >>
                     \o message_suffix(message) >>]

\* timeit's name: the identity attributes the callable has, joined by "."
timeit_name(function) ==
    Join( << function.class_name >>
          \o (IF function.has_qualname THEN << function.qualname >> ELSE <<>>)
          \o (IF function.has_name THEN << function.name >> ELSE <<>>),
          <<".">> )

(***************************************************************************)
(* What the caller passes in                                               *)
(***************************************************************************)
LambdaNames    == { <<>>,
                    <<"e","u","1","-","m","y","_","a","p","-","F">>,
                    <<"F">> }
Regions        == { <<>>, <<"e","u">> }
GlobalTagLists == { <<>>, << <<"g">> >> }
CallerTagLists == { << <<"x">>, <<"a">>, <<"x">> >> }
TagArgs        == { None, "tags" }
MetricNames    == { <<>>, <<"a",".","b">>, <<".",".","a">> }
ServiceNames   == { <<>>, <<"a",".","b">> }
Values         == { 1, 5 }
Statuses       == { [type |-> "int", val |-> 1], [type |-> "int", val |-> 5],
                    [type |-> "str", val |-> 1] }
Messages       == { <<>>, <<"d","i","s","k"," ","f","u","l","l">> }
Durations      == { 0, 3 }
Results        == { 0, 7 }
Functions      == { [class_name |-> <<"f","u","n","c","t","i","o","n">>,
                     has_qualname |-> TRUE, qualname |-> <<"f">>,
                     has_name |-> TRUE, name |-> <<"f">>],
                    [class_name |-> <<"P">>,
                     has_qualname |-> FALSE, qualname |-> <<>>,
                     has_name |-> FALSE, name |-> <<>>] }

NoFunction  == [class_name |-> <<>>, has_qualname |-> FALSE, qualname |-> <<>>,
                has_name |-> FALSE, name |-> <<>>]
NoFrame     == [metric_name |-> <<>>, tags |-> None, start_time |-> 0,
                function |-> NoFunction]
NoCall      == [op |-> "none", metric_name |-> <<>>, value |-> 0, tags |-> None,
                tags_in |-> <<>>, status |-> [type |-> "int", val |-> 0],
                message |-> <<>>, at |-> 0, before |-> 0, raised |-> "",
                function |-> NoFunction, result |-> 0, returned |-> <<>>]

\* the list a tags argument refers to when the call starts
TagsIn(h, tags) == IF tags = None THEN <<>> ELSE h[tags]

\* where the caller may call the emitter: the bodies of a with block and of a
\* wrapped function are taken not to call it themselves
Running == {"idle"}

(***************************************************************************)
(* The state machine                                                       *)
(***************************************************************************)
Init ==
    /\ lambda_name \in LambdaNames
    /\ aws_region \in Regions
    /\ hashseed \in {0, 1}
    /\ \E g \in GlobalTagLists, c \in CallerTagLists :
          heap = [r \in {"global_tags", "tags", "_default_tags", "fresh"} |->
                     IF r = "global_tags" THEN g ELSE IF r = "tags" THEN c ELSE <<>>]
    /\ pc = "new"
    /\ frame = NoFrame
    /\ now = 1999
    /\ stdout = <<>>
    /\ call = NoCall

\* m = DataDogMetrics(global_tags)
Construct ==
    /\ pc = "new"
    /\ heap' = __init__(heap, lambda_name, aws_region)
    /\ pc' = "idle"
    /\ call' = [NoCall EXCEPT !.op = "__init__", !.tags = "global_tags",
                              !.tags_in = heap["global_tags"], !.at = now]
    /\ UNCHANGED <<lambda_name, aws_region, hashseed, frame, now, stdout>>

\* a call of one of the four metric methods: r is what the method did
MetricCall(op, r, metric_name, value, tags) ==
    /\ heap' = r.heap
    /\ stdout' = stdout \o r.out
    /\ call' = [NoCall EXCEPT !.op = op, !.metric_name = metric_name, !.value = value,
                              !.tags = tags, !.tags_in = TagsIn(heap, tags),
                              !.at = now, !.before = Len(stdout)]
    /\ UNCHANGED <<lambda_name, aws_region, hashseed, pc, frame, now>>

Increment(limit) ==
    /\ pc \in Running /\ Len(stdout) < limit
    /\ \E metric_name \in MetricNames, count \in Values, tags \in TagArgs :
          MetricCall("increment", increment(heap, now, metric_name, count, tags),
                     metric_name, count, tags)

Gauge(limit) ==
    /\ pc \in Running /\ Len(stdout) < limit
    /\ \E metric_name \in MetricNames, value \in Values, tags \in TagArgs :
          MetricCall("gauge", gauge(heap, now, metric_name, value, tags),
                     metric_name, value, tags)

Histogram(limit) ==
    /\ pc \in Running /\ Len(stdout) < limit
    /\ \E metric_name \in MetricNames, value \in Values, tags \in TagArgs :
          MetricCall("histogram", histogram(heap, now, metric_name, value, tags),
                     metric_name, value, tags)

Timing(limit) ==
    /\ pc \in Running /\ Len(stdout) < limit
    /\ \E metric_name \in MetricNames, delta \in Values, tags \in TagArgs :
          MetricCall("timing", timing(heap, now, metric_name, delta, tags),
                     metric_name, delta, tags)

\* service_check: the assert, then the line
ServiceCheck(limit) ==
    /\ pc \in Running /\ Len(stdout) < limit
    /\ \E service_name \in ServiceNames, status \in Statuses,
          message \in Messages, tags \in TagArgs :
          LET r == service_check(heap, now, service_name, status, message, tags)
              c == [NoCall EXCEPT !.op = "service_check", !.metric_name = service_name,
                                  !.value = status.val, !.status = status,
                                  !.message = message, !.tags = tags,
                                  !.tags_in = TagsIn(heap, tags),
                                  !.at = now, !.before = Len(stdout)]
          IN  IF IsInt(status)
              THEN /\ heap' = r.heap
                   /\ stdout' = stdout \o r.out
                   /\ call' = c
              ELSE /\ call' = [NoCall EXCEPT !.op = "service_check", !.status = status,
                                            !.before = Len(stdout),
                                            !.raised = "AssertionError"]
                   /\ UNCHANGED <<heap, stdout>>
    /\ UNCHANGED <<lambda_name, aws_region, hashseed, pc, frame, now>>

\* "with m.timing_context(metric_name, tags):" up to the yield
TimingContextEnter(limit) ==
    /\ pc = "idle" /\ Len(stdout) < limit
    /\ \E metric_name \in {<<"a",".","b">>}, tags \in TagArgs :
          frame' = [metric_name |-> metric_name, tags |-> tags, start_time |-> now,
                    function |-> NoFunction]
    /\ pc' = "with"
    /\ UNCHANGED <<lambda_name, aws_region, hashseed, heap, now, stdout, call>>

\* what the generator does when the with body has raised: the error is thrown
\* in at the yield, no handler and no finally surrounds it, so the generator
\* ends there and nothing after the yield runs
after_yield_on_error(h, t, f) ==
    [heap |-> h, out |-> <<>>]

\* lines 143-145, after the yield: the delta and the timing call
after_yield(h, t, f) ==
    timing(h, t, f.metric_name, RoundHalves(t - f.start_time), f.tags)

\* the with body ends normally dt later
TimingContextExit(limit) ==
    /\ pc = "with" /\ Len(stdout) < limit
    /\ \E dt \in Durations :
          /\ now + dt <= MaxClock
          /\ now' = now + dt
          /\ LET r == after_yield(heap, now', frame)
             IN  /\ heap' = r.heap
                 /\ stdout' = stdout \o r.out
                 /\ call' = [NoCall EXCEPT !.op = "timing_context",
                                !.metric_name = frame.metric_name,
                                !.value = RoundHalves(now' - frame.start_time),
                                !.tags = frame.tags,
                                !.tags_in = TagsIn(heap, frame.tags),
                                !.at = now', !.before = Len(stdout)]
    /\ pc' = "idle"
    /\ frame' = NoFrame
    /\ UNCHANGED <<lambda_name, aws_region, hashseed>>

\* the with body raises dt later; the error leaves the with statement
TimingContextRaise ==
    /\ pc = "with"
    /\ \E dt \in Durations :
          /\ now + dt <= MaxClock
          /\ now' = now + dt
          /\ LET r == after_yield_on_error(heap, now', frame)
             IN  /\ heap' = r.heap
                 /\ stdout' = stdout \o r.out
                 /\ call' = [NoCall EXCEPT !.op = "timing_context",
                                !.before = Len(stdout), !.raised = "Exception"]
    /\ pc' = "idle"
    /\ frame' = NoFrame
    /\ UNCHANGED <<lambda_name, aws_region, hashseed>>

\* decorated = m.timeit(function); decorated(...) up to the call of function
DecoratedCall(limit) ==
    /\ pc = "idle" /\ Len(stdout) < limit
    /\ \E function \in Functions :
          frame' = [metric_name |-> timeit_name(function), tags |-> None,
                    start_time |-> now, function |-> function]
    /\ pc' = "decorated"
    /\ UNCHANGED <<lambda_name, aws_region, hashseed, heap, now, stdout, call>>

\* "return None" in place of "return result"
decorated_returns_none(result) == <<>>

\* "return result": what decorated hands back (<<>> stands for None)
decorated_returns(result) == <<result>>

\* the wrapped function returns result dt later: lines 175-178
DecoratedReturn(limit) ==
    /\ pc = "decorated" /\ Len(stdout) < limit
    /\ \E dt \in Durations, result \in Results :
          /\ now + dt <= MaxClock
          /\ now' = now + dt
          /\ LET delta == RoundHalves(now' - frame.start_time)
                 r == timing(heap, now', frame.metric_name, delta, None)
             IN  /\ heap' = r.heap
                 /\ stdout' = stdout \o r.out
                 /\ call' = [NoCall EXCEPT !.op = "decorated",
                                !.metric_name = frame.metric_name,
                                !.value = delta,
                                !.at = now', !.before = Len(stdout),
                                !.function = frame.function,
                                !.result = result,
                                !.returned = decorated_returns(result)]
    /\ pc' = "idle"
    /\ frame' = NoFrame
    /\ UNCHANGED <<lambda_name, aws_region, hashseed>>

\* the wrapped function raises dt later: line 174 has no handler around it
DecoratedRaise ==
    /\ pc = "decorated"
    /\ \E dt \in Durations :
          /\ now + dt <= MaxClock
          /\ now' = now + dt
    /\ call' = [NoCall EXCEPT !.op = "decorated", !.before = Len(stdout),
                              !.raised = "Exception"]
    /\ pc' = "idle"
    /\ frame' = NoFrame
    /\ UNCHANGED <<lambda_name, aws_region, hashseed, heap, stdout>>

Next ==
    \/ Construct
    \/ Increment(MaxLines)
    \/ Gauge(MaxLines)
    \/ Histogram(MaxLines)
    \/ Timing(MaxLines)
    \/ ServiceCheck(MaxLines)
    \/ TimingContextEnter(MaxLines)
    \/ TimingContextExit(MaxLines)
    \/ TimingContextRaise
    \/ DecoratedCall(MaxLines)
    \/ DecoratedReturn(MaxLines)
    \/ DecoratedRaise

Spec == Init /\ [][Next]_vars

(***************************************************************************)
(* Longer runs of one emitter: a caller who reuses its tag list            *)
(***************************************************************************)
InitSeq ==
    /\ lambda_name = <<"e","u","1","-","m","y","_","a","p","-","F">>
    /\ aws_region = <<"e","u">>
    /\ hashseed = 0
    /\ \E c \in CallerTagLists :
          heap = [r \in {"global_tags", "tags", "_default_tags", "fresh"} |->
                     IF r = "global_tags" THEN << <<"g">> >>
                     ELSE IF r = "tags" THEN c ELSE <<>>]
    /\ pc = "new"
    /\ frame = NoFrame
    /\ now = 1999
    /\ stdout = <<>>
    /\ call = NoCall

NextSeq ==
    \/ Construct
    \/ Increment(MaxSeq)
    \/ Gauge(MaxSeq)
    \/ Histogram(MaxSeq)
    \/ Timing(MaxSeq)
    \/ ServiceCheck(MaxSeq)
    \/ TimingContextEnter(MaxSeq)
    \/ TimingContextExit(MaxSeq)
    \/ TimingContextRaise
    \/ DecoratedCall(MaxSeq)
    \/ DecoratedReturn(MaxSeq)
    \/ DecoratedRaise

SpecSeq == InitSeq /\ [][NextSeq]_vars

(***************************************************************************)
(* Construction alone, over many function identifiers                      *)
(***************************************************************************)
Parts == { <<"r","1">>, <<"_","a">>, <<"-","b">>, <<"_","X">>, <<"1">>, <<"_">>,
           <<"_","s","t","a","g","i","n","g">> }

RECURSIVE Flatten(_)
Flatten(ps) == IF ps = <<>> THEN <<>> ELSE ps[1] \o Flatten(Tail(ps))

Identifiers == { Flatten(ps) : ps \in UNION { [1..n -> Parts] : n \in 0..MaxParts } }

InitNames ==
    /\ lambda_name \in Identifiers
    /\ aws_region = <<>>
    /\ hashseed = 0
    /\ heap = [r \in {"global_tags", "tags", "_default_tags", "fresh"} |-> <<>>]
    /\ pc = "new"
    /\ frame = NoFrame
    /\ now = 1999
    /\ stdout = <<>>
    /\ call = NoCall

SpecInit == InitNames /\ [][Construct]_vars

(***************************************************************************)
(* Reading the state                                                       *)
(***************************************************************************)
Constructed == pc # "new"
DefaultTags == heap["_default_tags"]
NGlobal     == Len(heap["global_tags"])
\* the name and stack construction settled on, read back from the default tags
TagName     == SubSeq(DefaultTags[NGlobal + 1], Len(STR_h) + 1, Len(DefaultTags[NGlobal + 1]))
TagStack    == SubSeq(DefaultTags[NGlobal + 3], Len(STR_stack) + 1, Len(DefaultTags[NGlobal + 3]))

IsWord(w) == Len(w) >= 1 /\ \A i \in 1..Len(w) : w[i] \in Lower
IsRegion(r) ==
    /\ Len(r) >= 2
    /\ \A i \in 1..Len(r) : r[i] \in Lower \cup Upper \cup Digit \cup {"_", "-"}
    /\ r[Len(r)] \in Digit
\* one lowercase segment, optionally with the staging suffix
IsStackOne(st) ==
    \/ IsWord(st)
    \/ \E i \in 1..Len(st) :
          st[i] \in {"_", "-"} /\ IsWord(SubSeq(st, 1, i - 1))
          /\ SubSeq(st, i + 1, Len(st)) = STR_staging
\* two lowercase segments, optionally with the staging suffix
IsStackTwo(st) ==
    \E i \in 1..Len(st) :
       /\ st[i] \in {"_", "-"}
       /\ IsWord(SubSeq(st, 1, i - 1))
       /\ IsStackOne(SubSeq(st, i + 1, Len(st)))

\* s = region sep stack sep name: the two cut points, region s[1..e], stack s[e+2..f]
Cuts(s) ==
    { c \in (1..Len(s)) \X (1..Len(s)) :
         /\ c[1] + 2 <= c[2] /\ c[2] + 2 <= Len(s)
         /\ s[c[1] + 1] \in {"_", "-"} /\ s[c[2] + 1] \in {"_", "-"}
         /\ IsRegion(SubSeq(s, 1, c[1])) }
CutStack(s, c) == SubSeq(s, c[1] + 2, c[2])
CutName(s, c)  == SubSeq(s, c[2] + 2, Len(s))
FormOneOrTwo(s) == { c \in Cuts(s) : IsStackOne(CutStack(s, c)) \/ IsStackTwo(CutStack(s, c)) }
FormTwo(s)      == { c \in Cuts(s) : IsStackTwo(CutStack(s, c)) }
\* the cut with the longest region and, for that region, the longest stack
Longest(C) == CHOOSE c \in C : \A d \in C : d[1] < c[1] \/ (d[1] = c[1] /\ d[2] <= c[2])

\* C6 as claimed: construction takes name and stack from every non-empty
\* identifier of the form region sep stack sep name whose stack is one or two
\* lowercase segments (optionally with the staging suffix); any other
\* non-empty identifier gives stack "no_stack" and the identifier as name; an
\* empty one gives "no_stack" and the empty name.
C6_AsClaimed ==
    Constructed =>
       IF lambda_name = <<>> THEN TagStack = STR_no_stack /\ TagName = <<>>
       ELSE IF FormOneOrTwo(lambda_name) # {}
       THEN \E c \in FormOneOrTwo(lambda_name) :
               TagStack = CutStack(lambda_name, c) /\ TagName = CutName(lambda_name, c)
       ELSE TagStack = STR_no_stack /\ TagName = lambda_name

\* C6 amended: the same with a stack of exactly two lowercase segments
\* (optionally with the staging suffix); the parts taken are those of the cut
\* with the longest region and then the longest stack.
C6_NameAndStack ==
    Constructed =>
       IF lambda_name = <<>> THEN TagStack = STR_no_stack /\ TagName = <<>>
       ELSE IF FormTwo(lambda_name) # {}
       THEN LET c == Longest(FormTwo(lambda_name))
            IN  TagStack = CutStack(lambda_name, c) /\ TagName = CutName(lambda_name, c)
       ELSE TagStack = STR_no_stack /\ TagName = lambda_name

\* a constructed emitter whose identifier matched with a staging stack
C6_Witness ==
    /\ Constructed
    /\ lambda_name = <<"r","1","_","a","-","b","_","s","t","a","g","i","n","g","_","X">>
    /\ TagStack = <<"a","-","b","_","s","t","a","g","i","n","g">>
    /\ TagName = <<"X">>

(***************************************************************************)
(* Reading the output                                                      *)
(***************************************************************************)
MetricOps  == {"increment", "gauge", "histogram", "timing"}
Printed    == call.op \in MetricOps \cup {"timing_context", "decorated", "service_check"}
                 /\ call.raised = ""
LastLine   == stdout[Len(stdout)]
OneLine    == Len(stdout) = call.before + 1
NoLine     == Len(stdout) = call.before
\* the tags of a line: its last-but-suffix field, cut at the commas
LineTags(line) == Split(line[11], ",")
NoDuplicates(s) == \A i, j \in 1..Len(s) : i # j => s[i] # s[j]
\* the type each metric method stands for
TypeOf(op) == CASE op = "increment" -> "count"
                [] op = "gauge"     -> "gauge"
                [] OTHER            -> "histogram"
\* the first k segments of name joined by ".", for every k: the prefixes of
\* name that end where name ends or right before a "."
Prefixes(name) ==
    { SubSeq(name, 1, k) : k \in { k \in 0..Len(name) : k = Len(name) \/ name[k + 1] = "." } }
NSegments(name) == 1 + Cardinality({ i \in 1..Len(name) : name[i] = "." })
HasDotDot(s) == \E i \in 1..(Len(s) - 1) : s[i] = "." /\ s[i + 1] = "."
StartsWith(s, p) == Len(s) >= Len(p) /\ SubSeq(s, 1, Len(p)) = p
\* the pipe grammar up to the tag field, with v as value and ty as type
Grammar(line, v, ty) ==
    /\ Len(line) >= 11
    /\ line[1] = "MONITORING" /\ line[2] = "|"
    /\ line[3] = call.at \div 2000 /\ line[4] = "|"
    /\ line[5] = v /\ line[6] = "|"
    /\ line[7] = ty /\ line[8] = "|"
    /\ StartsWith(line[9], STR_lambda_dot) /\ line[10] = "|#"
    /\ Range(DefaultTags) \subseteq Range(LineTags(line))

\* C5: from construction on, defaultTags is the caller's global tags followed
\* by h:<name>, host:<name>, stack:<stack>, lambda and, exactly when the region
\* is non-empty, aws_region:<region>; no step changes it, and no step, the
\* construction included, changes the caller's global tag list.
C5_DefaultTagsFixed ==
    [][ /\ heap'["global_tags"] = heap["global_tags"]
        /\ pc' # "new" =>
             LET g == heap["global_tags"]
                 d == heap'["_default_tags"]
                 n == init_names(lambda_name)
             IN  /\ Len(d) = Len(g) + 4 + (IF aws_region = <<>> THEN 0 ELSE 1)
                 /\ SubSeq(d, 1, Len(g)) = g
                 /\ d[Len(g) + 1] = STR_h \o n.lambda_name
                 /\ d[Len(g) + 2] = STR_host \o n.lambda_name
                 /\ d[Len(g) + 3] = STR_stack \o n.stack
                 /\ d[Len(g) + 4] = STR_lambda
                 /\ aws_region # <<>> => d[Len(g) + 5] = STR_aws_region \o aws_region
      ]_vars

\* a line was printed by an emitter built with global tags and a region
C5_Witness ==
    /\ Printed /\ OneLine
    /\ heap["global_tags"] # <<>> /\ aws_region # <<>>
    /\ Len(DefaultTags) = NGlobal + 5

\* C3: increment, gauge, histogram and timing each print exactly one line
\* MONITORING|<timestamp>|<value>|<type>|<name>|#<tags>, the value being the
\* call's and the type count, gauge, histogram and histogram.
C3_MetricLine ==
    (call.op \in MetricOps) =>
       /\ OneLine
       /\ Len(LastLine) = 11
       /\ Grammar(LastLine, call.value, TypeOf(call.op))
       /\ LastLine[9] = ReplaceDotDot(STR_lambda_dot \o call.metric_name)

\* timing printed a histogram line with the delta of the call
C3_Witness ==
    /\ call.op = "timing" /\ call.value = 5 /\ OneLine
    /\ LastLine[5] = 5 /\ LastLine[7] = "histogram"

\* C4 as claimed: the tags of a printed line have no duplicates and are, as a
\* set, the caller's tags, the default tags and the N prefixes of the name,
\* for every name of N segments.
C4_AsClaimed ==
    Printed =>
       /\ NoDuplicates(LineTags(LastLine))
       /\ Range(LineTags(LastLine)) =
             Range(call.tags_in) \cup Range(DefaultTags) \cup Prefixes(call.metric_name)
       /\ Cardinality(Prefixes(call.metric_name)) = NSegments(call.metric_name)

\* C4 amended: as claimed for every non-empty name; an empty name adds no
\* prefix tag.
C4_TagSet ==
    Printed =>
       /\ NoDuplicates(LineTags(LastLine))
       /\ Range(LineTags(LastLine)) =
             Range(call.tags_in) \cup Range(DefaultTags)
             \cup (IF call.metric_name # <<>> THEN Prefixes(call.metric_name) ELSE {})
       /\ Cardinality(Prefixes(call.metric_name)) = NSegments(call.metric_name)

\* a line for a three-segment name, printed with a caller list holding a
\* duplicate and one of the prefixes
C4_Witness ==
    /\ Printed /\ OneLine
    /\ call.metric_name = <<".",".","a">>
    /\ call.tags_in = << <<"x">>, <<"a">>, <<"x">> >>
    /\ {<<>>, <<".">>, <<".",".","a">>} \subseteq Range(LineTags(LastLine))

\* C1: a timing scope records exactly one histogram line when control
\* leaves it, whether its body finished normally or raised.
C1_OneLinePerScope ==
    (call.op = "timing_context") =>
       /\ OneLine
       /\ LastLine[7] = "histogram"

\* C2: a status outside {0,1,2,3} fails service_check's precondition and
\* prints nothing, so only those four appear in a check line.
C2_OnlyDefinedStatuses ==
    /\ \A i \in 1..Len(stdout) : stdout[i][7] = "check" => stdout[i][5] \in {0, 1, 2, 3}
    /\ (call.op = "service_check"
          /\ ~(call.status.type = "int" /\ call.status.val \in {0, 1, 2, 3}))
       => (call.raised # "" /\ NoLine)

\* C7: the name field of every printed line starts with "lambda." and holds
\* no "..".
C7_NoDoubledDots ==
    Printed =>
       /\ StartsWith(LastLine[9], STR_lambda_dot)
       /\ ~HasDotDot(LastLine[9])

\* C8: a service_check with a valid status prints exactly one line
\* MONITORING|<timestamp>|<status>|check|<name>|#<tags>, its tags resolved
\* from the raw service name, ending in |m:<message> exactly when the message
\* is non-empty.
C8_CheckLine ==
    (call.op = "service_check" /\ call.status.type = "int"
       /\ call.status.val \in {0, 1, 2, 3}) =>
       /\ call.raised = ""
       /\ OneLine
       /\ Grammar(LastLine, call.status.val, "check")
       /\ LastLine[9] = ReplaceDotDot(STR_lambda_dot \o call.metric_name)
       /\ Range(LineTags(LastLine)) =
             Range(call.tags_in) \cup Range(DefaultTags)
             \cup (IF call.metric_name # <<>> THEN Prefixes(call.metric_name) ELSE {})
       /\ IF call.message # <<>>
          THEN Len(LastLine) = 13 /\ LastLine[12] = "|m:" /\ LastLine[13] = call.message
          ELSE Len(LastLine) = 11

\* a WARNING check with a message, for a service of two segments
C8_Witness ==
    /\ call.op = "service_check" /\ call.status.val = 1 /\ call.raised = ""
    /\ call.metric_name = <<"a",".","b">>
    /\ Len(LastLine) = 13
    /\ LastLine[13] = <<"d","i","s","k"," ","f","u","l","l">>

\* the identity of a callable: its type name, qualified name and simple
\* name, those it has, joined by "."
Identity(f) ==
    f.class_name
    \o (IF f.has_qualname THEN <<".">> \o f.qualname ELSE <<>>)
    \o (IF f.has_name THEN <<".">> \o f.name ELSE <<>>)

\* C9: a call of the wrapper timeit returned prints exactly one timing line
\* named after the callable and returns the callable's result when the
\* callable returns; it prints nothing and lets the error out when the
\* callable raises.
C9_Wrapper ==
    (call.op = "decorated") =>
       IF call.raised = ""
       THEN /\ OneLine
            /\ Grammar(LastLine, call.value, "histogram")
            /\ LastLine[9] = STR_lambda_dot \o Identity(call.function)
            /\ call.returned = <<call.result>>
       ELSE NoLine /\ call.raised = "Exception"

\* a wrapped function with a qualified name returned 7
C9_Witness ==
    /\ call.op = "decorated" /\ call.raised = "" /\ call.result = 7
    /\ call.function.has_qualname
    /\ OneLine

\* C10: calls leave the tag list their caller passes unchanged, so the tags
\* of every line printed for a call given the caller's list are that list as
\* the caller built it, the default tags and the prefixes of the call's own
\* name, whatever was called before.
C10_OwnTagsOnly ==
    (Printed /\ call.tags = "tags") =>
       Range(LineTags(LastLine)) \in
          { Range(c) \cup Range(DefaultTags)
            \cup (IF call.metric_name # <<>> THEN Prefixes(call.metric_name) ELSE {})
            : c \in CallerTagLists }

====
